---- MODULE Spec2Model ----
(***************************************************************************)
(* Model of src/07/day07.c: main loads a character grid, finds the start   *)
(* column on row 0 and runs part2, the generation-by-generation path       *)
(* enumeration that counts the distinct signatures of the paths leaving    *)
(* the grid at the bottom, deduplicated through a chained hash set.        *)
(*                                                                         *)
(* C arrays are 0-based; the sequences of the model are 1-based, so the    *)
(* C element a[k] is the model's a[k + 1].  Rows, columns, the loop index  *)
(* i and sig_len keep their C values.                                      *)
(***************************************************************************)
EXTENDS Integers, Sequences, FiniteSets, TLC

VARIABLES pc, grid, height, width, start_col, paths, new_paths, i,
          timeline_count, final_states, result, printed, exit_status,
          gen, addLog, dropped, live_lists

vars == <<pc, grid, height, width, start_col, paths, new_paths, i,
          timeline_count, final_states, result, printed, exit_status,
          gen, addLog, dropped, live_lists>>

\* gen counts the iterations of the while loop begun, addLog records the
\* calls of hash_set_add and what they returned, dropped the signatures of
\* the paths that met a deflector without a neighbour column, live_lists
\* the PathList containers allocated and not yet freed.

(***************************************************************************)
(* Bounds of the model.                                                    *)
(***************************************************************************)
MaxHeight == 4
MaxWidth == 3
MaxCells == 9
MaxLiveCells == 6
MaxFrontier == 2
MaxSigLen == 2

(***************************************************************************)
(* Program constants.                                                      *)
(***************************************************************************)
MAX_GRID_SIZE == 1000
MAX_SIGNATURE_LEN == 10000
HASH_TABLE_SIZE == 1048576
HASH_SEED == 5381
INITIAL_CAPACITY == 1000
CH_L == 76
CH_R == 82
CH_D == 68
NUL == 0

Cells == {"S", "^", "."}
Moves == {CH_L, CH_R, CH_D}

(***************************************************************************)
(* The grids main can load: every row has the length of the first one,     *)
(* blank lines are skipped, so a loaded row is never empty; an input       *)
(* without any non-blank line leaves height = 0 and width = 0.             *)
(***************************************************************************)
GridsUpTo(n) ==
    {<<>>} \cup
    UNION { [1..h -> [1..w -> Cells]] :
              <<h, w>> \in {hw \in (1..MaxHeight) \X (1..MaxWidth) :
                              hw[1] * hw[2] <= n} }

Grids == GridsUpTo(MaxCells)

\* grid is a global array, zero-initialised: a cell that no loaded line
\* has written holds the zero byte.
ZeroCell == "NUL"

Cell(r, c) ==
    IF r + 1 \in DOMAIN grid /\ c + 1 \in DOMAIN grid[r + 1]
    THEN grid[r + 1][c + 1]
    ELSE ZeroCell

(***************************************************************************)
(* hash_string: unsigned 32-bit djb2, reduced modulo HASH_TABLE_SIZE.  The *)
(* 32-bit accumulator is kept as two 16-bit limbs <<hi, lo>> so that the   *)
(* wrap-around of ((hash << 5) + hash) + str[i] is computed exactly.       *)
(***************************************************************************)
Limb == 65536

HashStep(h, c) ==
    LET t == h[2] * 33 + c
    IN  <<(h[1] * 33 + (t \div Limb)) % Limb, t % Limb>>

RECURSIVE HashAcc(_, _)
HashAcc(str, len) ==
    IF len = 0 THEN <<HASH_SEED \div Limb, HASH_SEED % Limb>>
    ELSE HashStep(HashAcc(str, len - 1), str[len])

hash_string(str, len) ==
    LET h == HashAcc(str, len)
    IN  ((h[1] % (HASH_TABLE_SIZE \div Limb)) * Limb + h[2]) % HASH_TABLE_SIZE

(***************************************************************************)
(* The hash set.  buckets is the calloc'ed bucket array, kept sparse: an   *)
(* index outside DOMAIN buckets is a NULL bucket.  A chain is the sequence *)
(* of the stored byte strings (each with its terminating NUL), head first. *)
(* live is FALSE before creation and after free_hash_set.                  *)
(***************************************************************************)
NoSet == [buckets |-> <<>>, size |-> 0, live |-> FALSE]

create_hash_set == [buckets |-> <<>>, size |-> 0, live |-> TRUE]

Chain(set, h) == IF h \in DOMAIN set.buckets THEN set.buckets[h] ELSE <<>>

\* memcmp(a, b, n) == 0.  A stored string shorter than n differs from a
\* signature of move symbols at its terminator at the latest.
MemEq(a, b, n) == \A j \in 1..n : j <= Len(a) /\ a[j] = b[j]

\* A variant of the node comparison without the test of the terminator.
NodeMatches_noterm(stored, str, len) ==
    MemEq(stored, str, len)

NodeMatches(stored, str, len) ==
    MemEq(stored, str, len) /\ stored[len + 1] = NUL

ChainHas(chain, str, len) ==
    \E k \in 1..Len(chain) : NodeMatches(chain[k], str, len)

hash_set_contains(set, str, len) ==
    ChainHas(Chain(set, hash_string(str, len)), str, len)

\* Variants of hash_set_add: one that reports false after inserting, one
\* that inserts without looking for the signature, one that does not count.
hash_set_add_retfalse(set, str, len) ==
    LET hash == hash_string(str, len)
        chain == Chain(set, hash)
        new_node == SubSeq(str, 1, len) \o <<NUL>>
    IN  [ret |-> FALSE,
         set |-> IF ChainHas(chain, str, len) THEN set
                 ELSE [set EXCEPT
                         !.buckets = [b \in DOMAIN set.buckets \cup {hash} |->
                                        IF b = hash THEN <<new_node>> \o chain
                                        ELSE set.buckets[b]],
                         !.size = set.size + 1]]

hash_set_add_nocheck(set, str, len) ==
    LET hash == hash_string(str, len)
        chain == Chain(set, hash)
        new_node == SubSeq(str, 1, len) \o <<NUL>>
    IN  [ret |-> TRUE,
         set |-> [set EXCEPT
                    !.buckets = [b \in DOMAIN set.buckets \cup {hash} |->
                                   IF b = hash THEN <<new_node>> \o chain
                                   ELSE set.buckets[b]],
                    !.size = set.size + 1]]

hash_set_add_nosize(set, str, len) ==
    LET hash == hash_string(str, len)
        chain == Chain(set, hash)
        new_node == SubSeq(str, 1, len) \o <<NUL>>
    IN  IF ChainHas(chain, str, len)
        THEN [ret |-> FALSE, set |-> set]
        ELSE [ret |-> TRUE,
              set |-> [set EXCEPT
                         !.buckets = [b \in DOMAIN set.buckets \cup {hash} |->
                                        IF b = hash THEN <<new_node>> \o chain
                                        ELSE set.buckets[b]]]]

hash_set_add(set, str, len) ==
    LET hash == hash_string(str, len)
        chain == Chain(set, hash)
        new_node == SubSeq(str, 1, len) \o <<NUL>>
    IN  IF ChainHas(chain, str, len)
        THEN [ret |-> FALSE, set |-> set]
        ELSE [ret |-> TRUE,
              set |-> [set EXCEPT
                         !.buckets = [b \in DOMAIN set.buckets \cup {hash} |->
                                        IF b = hash THEN <<new_node>> \o chain
                                        ELSE set.buckets[b]],
                         !.size = set.size + 1]]

free_hash_set(set) == [set EXCEPT !.live = FALSE]

(***************************************************************************)
(* Path lists.  data holds the size appended paths in insertion order      *)
(* (size = Len(data)); a Path's signature holds the sig_len symbols and    *)
(* the terminating NUL written by add_path.                                *)
(***************************************************************************)
NoList == [data |-> <<>>, capacity |-> 0, live |-> FALSE]

create_path_list(initial_capacity) ==
    [data |-> <<>>, capacity |-> initial_capacity, live |-> TRUE]

\* A variant of add_path that skips a path whose position the list holds.
add_path_dedup(list, row, col, signature, sig_len) ==
    IF \E k \in 1..Len(list.data) :
           list.data[k].row = row /\ list.data[k].col = col
    THEN list
    ELSE [list EXCEPT
            !.capacity = IF Len(list.data) >= list.capacity
                         THEN list.capacity * 2 ELSE list.capacity,
            !.data = Append(list.data,
                            [row |-> row, col |-> col, sig_len |-> sig_len,
                             signature |-> SubSeq(signature, 1, sig_len) \o <<NUL>>])]

add_path(list, row, col, signature, sig_len) ==
    [list EXCEPT
       !.capacity = IF Len(list.data) >= list.capacity
                    THEN list.capacity * 2 ELSE list.capacity,
       !.data = Append(list.data,
                       [row |-> row, col |-> col, sig_len |-> sig_len,
                        signature |-> SubSeq(signature, 1, sig_len) \o <<NUL>>])]

free_path_list(list) == [list EXCEPT !.live = FALSE]

Size(list) == Len(list.data)

(***************************************************************************)
(* main.  The trace printf of part2 (line 144-145) writes nothing the      *)
(* program reads back and is left out.                                     *)
(***************************************************************************)
Init ==
    /\ pc = "main"
    /\ grid = <<>>
    /\ height = 0
    /\ width = 0
    /\ start_col = 0
    /\ paths = NoList
    /\ new_paths = NoList
    /\ i = 0
    /\ timeline_count = 0
    /\ final_states = NoSet
    /\ result = -1
    /\ printed = -1
    /\ exit_status = -1
    /\ gen = 0
    /\ addLog = <<>>
    /\ dropped = {}
    /\ live_lists = 0

\* fopen fails: "Error opening file", return 1.
MainOpenFail ==
    /\ pc = "main"
    /\ pc' = "error"
    /\ exit_status' = 1
    /\ UNCHANGED <<grid, height, width, start_col, paths, new_paths, i,
                   timeline_count, final_states, result, printed,
                   gen, addLog, dropped,
                   live_lists>>

\* The fgets loop: the non-blank lines become the rows of grid, width is
\* the length of the first of them, height their number.
MainLoad ==
    /\ pc = "main"
    /\ \E g \in Grids :
         /\ grid' = g
         /\ height' = Len(g)
         /\ width' = IF Len(g) = 0 THEN 0 ELSE Len(g[1])
    /\ pc' = "find_start"
    /\ UNCHANGED <<start_col, paths, new_paths, i, timeline_count,
                   final_states, result, printed, exit_status,
                   gen, addLog, dropped,
                   live_lists>>

\* for (col = 0; col < width; col++) if (grid[0][col] == 'S') { ...; break; }
\* A variant of the scan without the break: the last 'S' wins.
RECURSIVE FindStart_nobreak(_)
FindStart_nobreak(col) ==
    IF col >= width THEN 0
    ELSE IF Cell(0, col) = "S" /\ \A c \in (col + 1)..(width - 1) : Cell(0, c) # "S"
         THEN col
    ELSE FindStart_nobreak(col + 1)

\* A variant of the scan that reports a missing 'S' as -1.
RECURSIVE FindStart_sentinel(_)
FindStart_sentinel(col) ==
    IF col >= width THEN -1
    ELSE IF Cell(0, col) = "S" THEN col
    ELSE FindStart_sentinel(col + 1)

RECURSIVE FindStart(_)
FindStart(col) ==
    IF col >= width THEN 0
    ELSE IF Cell(0, col) = "S" THEN col
    ELSE FindStart(col + 1)

MainFindStart ==
    /\ pc = "find_start"
    /\ start_col' = FindStart(0)
    /\ pc' = "call_part2"
    /\ UNCHANGED <<grid, height, width, paths, new_paths, i, timeline_count,
                   final_states, result, printed, exit_status,
                   gen, addLog, dropped,
                   live_lists>>

(***************************************************************************)
(* part2.                                                                  *)
(***************************************************************************)
Part2Init ==
    /\ pc = "call_part2"
    /\ paths' = add_path(create_path_list(INITIAL_CAPACITY), 0, start_col, <<NUL>>, 0)
    /\ timeline_count' = 0
    /\ final_states' = create_hash_set
    /\ pc' = "while"
    /\ live_lists' = live_lists + 1
    /\ UNCHANGED <<grid, height, width, start_col, new_paths, i, result,
                   printed, exit_status, gen, addLog, dropped>>

\* while (paths->size > 0) { new_paths = create_path_list(paths->size * 2);
BeginGeneration ==
    /\ pc = "while"
    /\ IF Size(paths) > 0
       THEN /\ new_paths' = create_path_list(Size(paths) * 2)
            /\ i' = 0
            /\ gen' = gen + 1
            /\ live_lists' = live_lists + 1
            /\ pc' = "for"
       ELSE /\ pc' = "return"
            /\ UNCHANGED <<new_paths, i, gen, live_lists>>
    /\ UNCHANGED <<grid, height, width, start_col, paths, timeline_count,
                   final_states, result, printed, exit_status, addLog, dropped>>

CurPath == paths.data[i + 1]

AtBoundary_gt(p) == p.row + 1 > height

\* next_row >= height
AtBoundary(p) == p.row + 1 >= height

InFor == pc = "for" /\ i < Size(paths)

\* if (next_row >= height) { if (hash_set_add(...)) timeline_count++; continue; }
BoundaryStep ==
    /\ InFor
    /\ AtBoundary(CurPath)
    /\ LET p == CurPath
           r == hash_set_add(final_states, p.signature, p.sig_len)
       IN  /\ final_states' = r.set
           /\ timeline_count' = IF r.ret THEN timeline_count + 1 ELSE timeline_count
           /\ addLog' = Append(addLog, [sig |-> SubSeq(p.signature, 1, p.sig_len),
                                        ret |-> r.ret])
    /\ i' = i + 1
    /\ UNCHANGED <<pc, grid, height, width, start_col, paths, new_paths,
                   result, printed, exit_status, gen, dropped,
                   live_lists>>

\* new_sig after memcpy(new_sig, p->signature, p->sig_len) and the write of
\* the symbol ch at index p->sig_len; the bytes beyond are not initialised
\* and are never read (add_path copies new_len bytes).
NewSig(p, ch) == SubSeq(p.signature, 1, p.sig_len) \o <<ch>>

\* Variants of Deflect: a left branch taken at column 0, a right branch
\* taken at column width - 1, and successors that share one buffer.
Deflect_leftge(list, p, next_row) ==
    LET new_len == p.sig_len + 1
        afterL == IF p.col >= 0
                  THEN add_path(list, next_row, p.col - 1, NewSig(p, CH_L), new_len)
                  ELSE list
    IN  IF p.col < width - 1
        THEN add_path(afterL, next_row, p.col + 1, NewSig(p, CH_R), new_len)
        ELSE afterL

Deflect_rightle(list, p, next_row) ==
    LET new_len == p.sig_len + 1
        afterL == IF p.col > 0
                  THEN add_path(list, next_row, p.col - 1, NewSig(p, CH_L), new_len)
                  ELSE list
    IN  IF p.col <= width - 1
        THEN add_path(afterL, next_row, p.col + 1, NewSig(p, CH_R), new_len)
        ELSE afterL

Deflect_shared(list, p, next_row) ==
    LET new_len == p.sig_len + 1
        last == IF p.col < width - 1 THEN CH_R ELSE CH_L
        afterL == IF p.col > 0
                  THEN add_path(list, next_row, p.col - 1, NewSig(p, last), new_len)
                  ELSE list
    IN  IF p.col < width - 1
        THEN add_path(afterL, next_row, p.col + 1, NewSig(p, CH_R), new_len)
        ELSE afterL

\* The list after the deflector branch has handled p.
Deflect(list, p, next_row) ==
    LET new_len == p.sig_len + 1
        afterL == IF p.col > 0
                  THEN add_path(list, next_row, p.col - 1, NewSig(p, CH_L), new_len)
                  ELSE list
    IN  IF p.col < width - 1
        THEN add_path(afterL, next_row, p.col + 1, NewSig(p, CH_R), new_len)
        ELSE afterL

DeflectStep ==
    /\ InFor
    /\ ~AtBoundary(CurPath)
    /\ Cell(CurPath.row + 1, CurPath.col) = "^"
    /\ new_paths' = Deflect(new_paths, CurPath, CurPath.row + 1)
    /\ dropped' = IF CurPath.col > 0 \/ CurPath.col < width - 1
                  THEN dropped
                  ELSE dropped \cup {SubSeq(CurPath.signature, 1, CurPath.sig_len)}
    /\ i' = i + 1
    /\ UNCHANGED <<pc, grid, height, width, start_col, paths, timeline_count,
                   final_states, result, printed, exit_status, gen, addLog,
                   live_lists>>

\* A variant of PassThrough that passes the old length to add_path.
PassThrough_oldlen(list, p, next_row) ==
    add_path(list, next_row, p.col, NewSig(p, CH_D), p.sig_len)

PassThrough(list, p, next_row) ==
    add_path(list, next_row, p.col, NewSig(p, CH_D), p.sig_len + 1)

PassStep ==
    /\ InFor
    /\ ~AtBoundary(CurPath)
    /\ Cell(CurPath.row + 1, CurPath.col) # "^"
    /\ new_paths' = PassThrough(new_paths, CurPath, CurPath.row + 1)
    /\ i' = i + 1
    /\ UNCHANGED <<pc, grid, height, width, start_col, paths, timeline_count,
                   final_states, result, printed, exit_status, gen, addLog,
                   dropped,
                   live_lists>>

\* A variant of EndGeneration that does not free the old list.
EndGeneration_nofree ==
    /\ pc = "for"
    /\ i >= Size(paths)
    /\ paths' = new_paths
    /\ new_paths' = NoList
    /\ pc' = "while"
    /\ UNCHANGED <<grid, height, width, start_col, i, timeline_count,
                   final_states, result, printed, exit_status, gen, addLog,
                   dropped, live_lists>>

\* End of the for loop: free_path_list(paths); paths = new_paths; the local
\* new_paths goes out of scope.
EndGeneration ==
    /\ pc = "for"
    /\ i >= Size(paths)
    /\ paths' = new_paths
    /\ new_paths' = NoList
    /\ pc' = "while"
    /\ live_lists' = live_lists - 1
    /\ UNCHANGED <<grid, height, width, start_col, i, timeline_count,
                   final_states, result, printed, exit_status, gen, addLog,
                   dropped>>

\* free_path_list(paths); free_hash_set(final_states); return timeline_count;
Part2Return ==
    /\ pc = "return"
    /\ paths' = free_path_list(paths)
    /\ final_states' = free_hash_set(final_states)
    /\ result' = timeline_count
    /\ pc' = "print"
    /\ live_lists' = live_lists - 1
    /\ UNCHANGED <<grid, height, width, start_col, new_paths, i,
                   timeline_count, printed, exit_status, gen, addLog, dropped>>

\* printf("Part 2: %d\n", result); return 0;
MainPrint ==
    /\ pc = "print"
    /\ printed' = result
    /\ exit_status' = 0
    /\ pc' = "done"
    /\ UNCHANGED <<grid, height, width, start_col, paths, new_paths, i,
                   timeline_count, final_states, result, gen, addLog, dropped,
                   live_lists>>

Next ==
    \/ MainOpenFail
    \/ MainLoad
    \/ MainFindStart
    \/ Part2Init
    \/ BeginGeneration
    \/ BoundaryStep
    \/ DeflectStep
    \/ PassStep
    \/ EndGeneration
    \/ Part2Return
    \/ MainPrint

Spec == Init /\ [][Next]_vars

(***************************************************************************)
(* The generation loop of part2 entered with an arbitrary frontier of      *)
(* paths that are about to leave a one-row grid: the boundary branch and   *)
(* the hash set are exercised with signatures that repeat, extend one      *)
(* another or differ in one position.                                      *)
(***************************************************************************)
TestSigs == UNION { [1..n -> Moves] : n \in 0..MaxSigLen }

ExitPaths ==
    { [row |-> 0, col |-> 0, sig_len |-> Len(s), signature |-> s \o <<NUL>>] :
        s \in TestSigs }

Frontiers == UNION { [1..n -> ExitPaths] : n \in 1..MaxFrontier }

DedupInit ==
    /\ pc = "while"
    /\ grid = <<<<"S">>>>
    /\ height = 1
    /\ width = 1
    /\ start_col = 0
    /\ \E f \in Frontiers :
         paths = [data |-> f, capacity |-> INITIAL_CAPACITY, live |-> TRUE]
    /\ new_paths = NoList
    /\ i = 0
    /\ timeline_count = 0
    /\ final_states = create_hash_set
    /\ result = -1
    /\ printed = -1
    /\ exit_status = -1
    /\ gen = 0
    /\ addLog = <<>>
    /\ dropped = {}
    /\ live_lists = 1

DedupNext ==
    \/ BeginGeneration
    \/ BoundaryStep
    \/ EndGeneration
    \/ Part2Return
    \/ MainPrint

DedupSpec == DedupInit /\ [][DedupNext]_vars

(***************************************************************************)
(* Vocabulary of the properties.                                           *)
(***************************************************************************)
\* The symbols of a path's signature, without the terminator.
Sig(p) == SubSeq(p.signature, 1, p.sig_len)

\* The nodes of the set, as <<bucket index, position in the chain>>.
Nodes(set) ==
    UNION { { <<b, k>> : k \in 1..Len(set.buckets[b]) } : b \in DOMAIN set.buckets }

\* The string a node stores, without its terminator.
Stored(set, n) ==
    SubSeq(set.buckets[n[1]][n[2]], 1, Len(set.buckets[n[1]][n[2]]) - 1)

\* The strings stored in the set.
Members(set) == { Stored(set, n) : n \in Nodes(set) }

\* The positions of the calls of hash_set_add made so far for signature s,
\* and those of them that returned true.
Calls(s) == { k \in 1..Len(addLog) : addLog[k].sig = s }
Added(s) == { k \in Calls(s) : addLog[k].ret }
Exited == { addLog[k].sig : k \in 1..Len(addLog) }

(***************************************************************************)
(* C1: over a run of part2, hash_set_add returns true exactly once for     *)
(* every signature carried by a path that leaves the grid, and the value   *)
(* part2 returns is the number of distinct signatures of those paths.      *)
(***************************************************************************)
C1_DedupCorrect ==
    /\ \A s \in Exited : Cardinality(Added(s)) = 1
    /\ pc \in {"print", "done"} => result = Cardinality(Exited)

\* A run that has returned after more than one path left the grid.
C1_Witness ==
    /\ pc = "done"
    /\ Cardinality(Exited) >= 2
    /\ printed = Cardinality(Exited)

(***************************************************************************)
(* C2: while the frontier at the bottom boundary is processed, the         *)
(* terminal counter equals the number of distinct signatures among the     *)
(* entries handled so far: entries that share a signature count once.      *)
(***************************************************************************)
C2_NoDoubleCount ==
    (pc = "for" /\ Size(paths) > 0 /\ paths.data[1].row + 1 >= height)
        => timeline_count = Cardinality({ Sig(paths.data[k]) : k \in 1..i })

\* Two different entries of the frontier with one signature have both been
\* handled, and the counter is 1.
C2_Witness ==
    /\ pc = "for"
    /\ i = 2
    /\ Sig(paths.data[1]) = Sig(paths.data[2])
    /\ Len(Sig(paths.data[1])) > 0
    /\ timeline_count = 1

(***************************************************************************)
(* C3: a call of hash_set_add with a signature that is not in the set      *)
(* returns true, makes it a member and grows size by one; a call with a    *)
(* signature that is in the set returns false and leaves the set as it is. *)
(***************************************************************************)
C3_AddContract ==
    [][Len(addLog') = Len(addLog) + 1 =>
         LET call == addLog'[Len(addLog')]
         IN  IF call.sig \in Members(final_states)
             THEN /\ ~call.ret
                  /\ final_states' = final_states
             ELSE /\ call.ret
                  /\ final_states'.size = final_states.size + 1
                  /\ Members(final_states') = Members(final_states) \cup {call.sig}
                  /\ Cardinality(Nodes(final_states')) =
                         Cardinality(Nodes(final_states)) + 1]_vars

\* Both cases have happened: a call that added and a call that found its
\* signature present, with the set holding what the first one stored.
C3_Witness ==
    /\ \E j, k \in 1..Len(addLog) :
         /\ j < k
         /\ addLog[j].sig = addLog[k].sig
         /\ addLog[j].ret
         /\ ~addLog[k].ret
    /\ final_states.size = 1

(***************************************************************************)
(* C4: in part2 the terminal counter, the size of the set, the number of   *)
(* calls of hash_set_add that returned true and the number of stored       *)
(* strings agree, no string is stored twice, and the value returned is the *)
(* size of the set when the loop ended.                                    *)
(***************************************************************************)
C4_CountIsSize ==
    /\ timeline_count = final_states.size
    /\ final_states.size = Cardinality({ k \in 1..Len(addLog) : addLog[k].ret })
    /\ final_states.size = Cardinality(Nodes(final_states))
    /\ Cardinality(Members(final_states)) = Cardinality(Nodes(final_states))
    /\ pc \in {"print", "done"} => result = final_states.size

\* The loop has ended with several signatures in the set.
C4_Witness ==
    /\ pc = "return"
    /\ final_states.live
    /\ final_states.size >= 2
    /\ timeline_count = final_states.size

(***************************************************************************)
(* The program from the point where main has loaded a grid, under the      *)
(* fairness a sequential program has: a step that can be taken is taken.   *)
(***************************************************************************)
LiveInit ==
    /\ pc = "find_start"
    /\ grid \in GridsUpTo(MaxLiveCells)
    /\ height = Len(grid)
    /\ width = IF Len(grid) = 0 THEN 0 ELSE Len(grid[1])
    /\ start_col = 0
    /\ paths = NoList
    /\ new_paths = NoList
    /\ i = 0
    /\ timeline_count = 0
    /\ final_states = NoSet
    /\ result = -1
    /\ printed = -1
    /\ exit_status = -1
    /\ gen = 0
    /\ addLog = <<>>
    /\ dropped = {}
    /\ live_lists = 0

LiveNext ==
    \/ MainFindStart
    \/ Part2Init
    \/ BeginGeneration
    \/ BoundaryStep
    \/ DeflectStep
    \/ PassStep
    \/ EndGeneration
    \/ Part2Return
    \/ MainPrint

LiveSpec == LiveInit /\ [][LiveNext]_vars /\ WF_vars(LiveNext)

(***************************************************************************)
(* C5: when part2 is called on a grid of positive height, the generation   *)
(* loop ends: the frontier becomes empty, after at most height iterations  *)
(* of the while loop.                                                      *)
(***************************************************************************)
C5_Terminates ==
    (pc = "call_part2" /\ height >= 1)
        ~> (pc = "return" /\ Size(paths) = 0 /\ gen <= height)

\* The loop has ended after exactly height generations, more than one.
C5_Witness ==
    /\ pc = "return"
    /\ Size(paths) = 0
    /\ height >= 2
    /\ gen = height

(***************************************************************************)
(* C6: on a grid of height 1 no successor is ever produced, the only       *)
(* signature added to the set is the empty one, and part2 returns 1.       *)
(***************************************************************************)
C6_OneRow ==
    height = 1 =>
        /\ Size(new_paths) = 0
        /\ Exited \subseteq {<<>>}
        /\ pc \in {"return", "print", "done"} =>
              /\ Members(final_states) = {<<>>}
              /\ timeline_count = 1
        /\ pc \in {"print", "done"} => result = 1

\* A one-row grid wider than one cell, started off column 0 next to a
\* deflector character, has printed 1.
C6_Witness ==
    /\ pc = "done"
    /\ height = 1
    /\ width >= 2
    /\ start_col > 0
    /\ \E c \in 0..(width - 1) : Cell(0, c) = "^"
    /\ printed = 1

(***************************************************************************)
(* C7: on a grid of height 2 with a deflector directly below the start     *)
(* column, part2 returns the number of in-bounds horizontal neighbours of  *)
(* the start column: with width >= 2, 1 at an edge column (signature "R"   *)
(* at column 0, "L" at column width - 1) and 2 at an interior column       *)
(* (signatures "L" and "R").                                               *)
(***************************************************************************)
C7_TwoRows ==
    (height = 2 /\ pc \in {"print", "done"} /\ Cell(1, start_col) = "^") =>
        /\ result = Cardinality({ c \in {start_col - 1, start_col + 1} :
                                    0 <= c /\ c < width })
        /\ (width >= 2 /\ start_col = 0) =>
              (result = 1 /\ Members(final_states) = {<<CH_R>>})
        /\ (width >= 2 /\ start_col = width - 1) =>
              (result = 1 /\ Members(final_states) = {<<CH_L>>})
        /\ (0 < start_col /\ start_col < width - 1) =>
              (result = 2 /\ Members(final_states) = {<<CH_L>>, <<CH_R>>})

\* The three cases: the start in column 0, in the last column, inside.
C7_WitnessLeft ==
    /\ pc = "done" /\ height = 2 /\ width >= 2 /\ Cell(1, start_col) = "^"
    /\ start_col = 0 /\ printed = 1

C7_WitnessRight ==
    /\ pc = "done" /\ height = 2 /\ width >= 2 /\ Cell(1, start_col) = "^"
    /\ start_col = width - 1 /\ printed = 1

C7_Witness ==
    /\ pc = "done" /\ height = 2 /\ Cell(1, start_col) = "^"
    /\ 0 < start_col /\ start_col < width - 1
    /\ printed = 2

IsPrefix(d, s) == Len(d) <= Len(s) /\ SubSeq(s, 1, Len(d)) = d

(***************************************************************************)
(* C8: a path that meets a deflector and has neither a left nor a right    *)
(* neighbour column is dropped: it has no successor, and neither its       *)
(* signature nor an extension of it is ever passed to hash_set_add or      *)
(* stored in the set.  (dropped holds the signatures of such paths.)       *)
(***************************************************************************)
C8_DeadEnd ==
    \A d \in dropped :
        /\ \A k \in 1..Size(new_paths) : ~IsPrefix(d, Sig(new_paths.data[k]))
        /\ \A k \in 1..Size(paths) :
               IsPrefix(d, Sig(paths.data[k])) =>
                   (pc = "for" /\ k <= i /\ Sig(paths.data[k]) = d)
        /\ \A k \in 1..Len(addLog) : ~IsPrefix(d, addLog[k].sig)
        /\ \A s \in Members(final_states) : ~IsPrefix(d, s)

\* A path was dropped below row 0 and the run has printed its count.
C8_Witness ==
    /\ pc = "done"
    /\ \E d \in dropped : Len(d) >= 1
    /\ printed = 0

(***************************************************************************)
(* C9: the start column part2 is called with is the lowest column of row 0 *)
(* that holds 'S', and 0 when row 0 holds none; in that case too the       *)
(* simulation starts from (0, 0), the program exits with status 0 and      *)
(* prints the count; the only error exit is the failed fopen.              *)
(***************************************************************************)
StartColumns == { c \in 0..(width - 1) : Cell(0, c) = "S" }

ExpectedStart ==
    IF StartColumns = {} THEN 0
    ELSE CHOOSE c \in StartColumns : \A e \in StartColumns : c <= e

C9_StartColumn ==
    /\ pc \notin {"main", "error", "find_start"} =>
          /\ start_col = ExpectedStart
          /\ exit_status # 1
    /\ (pc = "while" /\ gen = 0) =>
          paths.data = <<[row |-> 0, col |-> ExpectedStart, sig_len |-> 0,
                          signature |-> <<NUL>>]>>
    /\ pc = "error" => (exit_status = 1 /\ grid = <<>> /\ ~final_states.live)
    /\ pc = "done" => (exit_status = 0 /\ printed = timeline_count /\ printed >= 0)

\* Row 0 holds no 'S' although the grid is wider than one column and has a
\* deflector below column 0: the run started at column 0 and printed.
C9_Witness ==
    /\ pc = "done"
    /\ width >= 2
    /\ StartColumns = {}
    /\ start_col = 0
    /\ printed >= 1

\* Row 0 holds two 'S', the first of them off column 0.
C9_WitnessFirstOfTwo ==
    /\ pc = "done"
    /\ Cardinality(StartColumns) >= 2
    /\ start_col >= 1
    /\ start_col = ExpectedStart

(***************************************************************************)
(* C10: a step that handles a path p whose next cell is a deflector        *)
(* appends to the next frontier exactly the left successor                 *)
(* (next_row, p.col - 1, p.signature + 'L') iff p.col > 0, followed by the *)
(* right successor (next_row, p.col + 1, p.signature + 'R') iff            *)
(* p.col < width - 1, and nothing else.                                    *)
(***************************************************************************)
Successor(p, dcol, ch) ==
    [row |-> p.row + 1, col |-> p.col + dcol, sig_len |-> p.sig_len + 1,
     signature |-> Sig(p) \o <<ch, NUL>>]

AtDeflector ==
    /\ pc = "for"
    /\ i < Size(paths)
    /\ paths.data[i + 1].row + 1 < height
    /\ Cell(paths.data[i + 1].row + 1, paths.data[i + 1].col) = "^"

C10_DeflectSuccessors ==
    [][AtDeflector =>
         LET p == paths.data[i + 1]
         IN  new_paths'.data =
                 new_paths.data
                 \o (IF p.col > 0 THEN <<Successor(p, -1, CH_L)>> ELSE <<>>)
                 \o (IF p.col < width - 1 THEN <<Successor(p, 1, CH_R)>> ELSE <<>>)]_vars

\* A deflector step has appended a left and then a right successor of a
\* path with a non-empty signature.
C10_Witness ==
    /\ pc = "for"
    /\ Size(new_paths) >= 2
    /\ LET n == Size(new_paths)
           l == new_paths.data[n - 1]
           r == new_paths.data[n]
       IN  /\ l.sig_len >= 2
           /\ l.signature[l.sig_len] = CH_L
           /\ r.signature[r.sig_len] = CH_R
           /\ SubSeq(l.signature, 1, l.sig_len - 1) = SubSeq(r.signature, 1, r.sig_len - 1)
           /\ l.col + 2 = r.col

(***************************************************************************)
(* C11: a step that handles a path p whose next cell lies inside the grid  *)
(* and holds any character other than '^' appends to the next frontier     *)
(* exactly one successor, (next_row, p.col, p.signature + 'D').            *)
(***************************************************************************)
AtPassCell ==
    /\ pc = "for"
    /\ i < Size(paths)
    /\ paths.data[i + 1].row + 1 < height
    /\ Cell(paths.data[i + 1].row + 1, paths.data[i + 1].col) # "^"

C11_PassSuccessor ==
    [][AtPassCell =>
         new_paths'.data =
             Append(new_paths.data, Successor(paths.data[i + 1], 0, CH_D))]_vars

\* A 'D' successor has been appended for a cell below row 0 that holds 'S',
\* behind an earlier entry of the next frontier.
C11_Witness ==
    /\ pc = "for"
    /\ Size(new_paths) >= 2
    /\ LET q == new_paths.data[Size(new_paths)]
       IN  /\ Cell(q.row, q.col) = "S"
           /\ q.sig_len >= 1
           /\ q.signature[q.sig_len] = CH_D

(***************************************************************************)
(* C12: a step that handles a path whose next row lies inside the grid     *)
(* leaves the set, the terminal counter and the record of hash_set_add     *)
(* calls unchanged, and appends every successor to the next frontier       *)
(* whatever that frontier already holds: the frontier is never             *)
(* deduplicated.                                                           *)
(***************************************************************************)
SuccessorCount(p) ==
    IF Cell(p.row + 1, p.col) = "^"
    THEN (IF p.col > 0 THEN 1 ELSE 0) + (IF p.col < width - 1 THEN 1 ELSE 0)
    ELSE 1

C12_DedupOnlyAtBoundary ==
    [][(pc = "for" /\ i < Size(paths) /\ paths.data[i + 1].row + 1 < height) =>
         /\ final_states' = final_states
         /\ timeline_count' = timeline_count
         /\ addLog' = addLog
         /\ Size(new_paths') = Size(new_paths) + SuccessorCount(paths.data[i + 1])
         /\ SubSeq(new_paths'.data, 1, Size(new_paths)) = new_paths.data]_vars

\* The next frontier holds two entries at one position while the set is
\* still empty.
C12_Witness ==
    /\ pc = "for"
    /\ final_states.live
    /\ final_states.size = 0
    /\ \E j, k \in 1..Size(new_paths) :
         /\ j < k
         /\ new_paths.data[j].row = new_paths.data[k].row
         /\ new_paths.data[j].col = new_paths.data[k].col

(***************************************************************************)
(* C13: with a grid of positive height and width, every path held in the   *)
(* current or the next frontier has 0 <= row < height and 0 <= col <       *)
(* width, so the cell read at (next_row, p.col) lies inside the grid.      *)
(***************************************************************************)
InGrid(p) == 0 <= p.row /\ p.row < height /\ 0 <= p.col /\ p.col < width

C13_PathsInGrid ==
    (height >= 1 /\ width >= 1) =>
        /\ 0 <= start_col /\ start_col < width
        /\ \A k \in 1..Size(paths) : InGrid(paths.data[k])
        /\ \A k \in 1..Size(new_paths) : InGrid(new_paths.data[k])
        /\ (pc = "for" /\ i < Size(paths) /\ paths.data[i + 1].row + 1 < height) =>
              /\ paths.data[i + 1].row + 2 \in DOMAIN grid
              /\ paths.data[i + 1].col + 1 \in DOMAIN grid[paths.data[i + 1].row + 2]

\* The frontier of the last row holds a path in column 0 and a path in
\* the last column of a grid wider than two columns.
C13_Witness ==
    /\ pc = "for"
    /\ width >= 3
    /\ height >= 3
    /\ \E j, k \in 1..Size(paths) :
         /\ paths.data[j].col = 0
         /\ paths.data[k].col = width - 1
         /\ paths.data[j].row = height - 1

(***************************************************************************)
(* C14: every path of a frontier has sig_len = row, a signature of sig_len *)
(* symbols from {L, R, D} followed by the terminator, and every entry of   *)
(* the next frontier carries the signature of a path already handled in    *)
(* the current one, extended by one symbol.                                *)
(***************************************************************************)
WellFormed(p) ==
    /\ p.sig_len = p.row
    /\ Len(p.signature) = p.sig_len + 1
    /\ p.signature[p.sig_len + 1] = NUL
    /\ \A j \in 1..p.sig_len : p.signature[j] \in Moves

C14_SignatureGrowth ==
    /\ \A k \in 1..Size(paths) : WellFormed(paths.data[k])
    /\ \A k \in 1..Size(new_paths) :
         /\ WellFormed(new_paths.data[k])
         /\ \E j \in 1..i :
              /\ j <= Size(paths)
              /\ new_paths.data[k].sig_len = paths.data[j].sig_len + 1
              /\ IsPrefix(Sig(paths.data[j]), Sig(new_paths.data[k]))
    /\ (pc = "while" /\ gen = 0) => Sig(paths.data[1]) = <<>>

\* A path whose signature holds each of the three symbols.
C14_Witness ==
    \E k \in 1..Size(paths) :
        /\ paths.live
        /\ paths.data[k].row = paths.data[k].sig_len
        /\ \A m \in Moves :
             \E j \in 1..paths.data[k].sig_len : paths.data[k].signature[j] = m

(***************************************************************************)
(* The generation loop of part2 entered with a frontier of exiting paths   *)
(* whose signatures collide under hash_string: "DR" and its extension      *)
(* "DRLRDLDDLRL" (bucket 619355), "" and "DLDDDRDLDRL" (bucket 5381),      *)
(* "LLLRDRDR" and its permutation "RRLLLDRD" (bucket 204519), "LDDLD" and  *)
(* "DRLRDL" (bucket 310153).                                               *)
(***************************************************************************)
CollidingSigs ==
    { <<CH_D, CH_R>>,
      <<CH_D, CH_R, CH_L, CH_R, CH_D, CH_L, CH_D, CH_D, CH_L, CH_R, CH_L>>,
      <<>>,
      <<CH_D, CH_L, CH_D, CH_D, CH_D, CH_R, CH_D, CH_L, CH_D, CH_R, CH_L>>,
      <<CH_L, CH_L, CH_L, CH_R, CH_D, CH_R, CH_D, CH_R>>,
      <<CH_R, CH_R, CH_L, CH_L, CH_L, CH_D, CH_R, CH_D>>,
      <<CH_L, CH_D, CH_D, CH_L, CH_D>>,
      <<CH_D, CH_R, CH_L, CH_R, CH_D, CH_L>> }

CollidePaths ==
    { [row |-> 0, col |-> 0, sig_len |-> Len(s), signature |-> s \o <<NUL>>] :
        s \in CollidingSigs }

CollideInit ==
    /\ pc = "while"
    /\ grid = <<<<"S">>>>
    /\ height = 1
    /\ width = 1
    /\ start_col = 0
    /\ \E f \in UNION { [1..n -> CollidePaths] : n \in 1..MaxFrontier } :
         paths = [data |-> f, capacity |-> INITIAL_CAPACITY, live |-> TRUE]
    /\ new_paths = NoList
    /\ i = 0
    /\ timeline_count = 0
    /\ final_states = create_hash_set
    /\ result = -1
    /\ printed = -1
    /\ exit_status = -1
    /\ gen = 0
    /\ addLog = <<>>
    /\ dropped = {}
    /\ live_lists = 1

CollideSpec == CollideInit /\ [][DedupNext]_vars

(***************************************************************************)
(* C15: hash_set_contains reports a signature present, and hash_set_add    *)
(* finds it present, iff the set stores a string of the same length with   *)
(* the same symbol at every position; a stored proper prefix, proper       *)
(* extension, permutation or other string of the same bucket is never      *)
(* taken for it.                                                           *)
(***************************************************************************)
C15_ExactEquality ==
    /\ \A q \in CollidingSigs :
         hash_set_contains(final_states, q \o <<NUL>>, Len(q))
             <=> (q \in Members(final_states))
    /\ \A k \in 1..Len(addLog) :
         addLog[k].ret <=> (\A j \in 1..(k - 1) : addLog[j].sig # addLog[k].sig)

\* One chain holds a string on top of a proper, non-empty prefix of it:
\* the longer one was added although the shorter one was in its bucket.
C15_Witness ==
    \E b \in DOMAIN final_states.buckets :
        /\ Len(final_states.buckets[b]) = 2
        /\ Len(final_states.buckets[b][2]) >= 2
        /\ Len(final_states.buckets[b][1]) > Len(final_states.buckets[b][2])
        /\ IsPrefix(Stored(final_states, <<b, 2>>), Stored(final_states, <<b, 1>>))
        /\ final_states.size = 2

\* The converse order: the prefix was added on top of its extension.
C15_WitnessPrefixLater ==
    \E b \in DOMAIN final_states.buckets :
        /\ Len(final_states.buckets[b]) = 2
        /\ Len(final_states.buckets[b][1]) >= 2
        /\ Len(final_states.buckets[b][2]) > Len(final_states.buckets[b][1])
        /\ IsPrefix(Stored(final_states, <<b, 1>>), Stored(final_states, <<b, 2>>))
        /\ final_states.size = 2

(***************************************************************************)
(* C16, as claimed: the previous frontier container is consumed and        *)
(* discarded before the next one is constructed, so two frontier           *)
(* containers never exist at the same time.                                *)
(***************************************************************************)
C16_OneContainerAtATime ==
    /\ live_lists <= 1
    /\ ~(paths.live /\ new_paths.live)

(***************************************************************************)
(* C16, amended: the next frontier container is constructed before the     *)
(* current one is consumed, and the current one is discarded at the end of *)
(* the generation step, before the following step constructs another: two  *)
(* containers (current and next) exist during a step, one between steps,   *)
(* never more than two.                                                    *)
(***************************************************************************)
C16_TwoBuffers ==
    /\ live_lists <= 2
    /\ pc = "for" => (live_lists = 2 /\ paths.live /\ new_paths.live)
    /\ pc \in {"while", "return"} =>
          (live_lists = 1 /\ paths.live /\ ~new_paths.live)
    /\ pc \in {"print", "done"} =>
          (live_lists = 0 /\ ~paths.live /\ ~new_paths.live)

\* In a generation after the first the current frontier has been consumed
\* and both containers hold paths.
C16_Witness ==
    /\ pc = "for"
    /\ gen >= 2
    /\ i = Size(paths)
    /\ Size(paths) >= 2
    /\ Size(new_paths) >= 2
    /\ live_lists = 2

(***************************************************************************)
(* C17: the signatures of the paths of a frontier are pairwise distinct,   *)
(* and a signature fixes its path's position: row = its length, col =      *)
(* start_col + number of 'R' - number of 'L'.  Hence hash_set_add never    *)
(* returns false in a run of part2 and the value returned is the number of *)
(* paths that reached the bottom boundary.                                 *)
(***************************************************************************)
Occurrences(sig, ch) == Cardinality({ j \in 1..Len(sig) : sig[j] = ch })

PositionOf(sig) ==
    [row |-> Len(sig),
     col |-> start_col + Occurrences(sig, CH_R) - Occurrences(sig, CH_L)]

DistinctSignatures(list) ==
    \A j, k \in 1..Size(list) :
        Sig(list.data[j]) = Sig(list.data[k]) => j = k

PositionFromSignature(list) ==
    \A k \in 1..Size(list) :
        /\ list.data[k].row = PositionOf(Sig(list.data[k])).row
        /\ list.data[k].col = PositionOf(Sig(list.data[k])).col

C17_DistinctSignatures ==
    /\ DistinctSignatures(paths)
    /\ DistinctSignatures(new_paths)
    /\ PositionFromSignature(paths)
    /\ PositionFromSignature(new_paths)
    /\ \A k \in 1..Len(addLog) : addLog[k].ret
    /\ pc \in {"return", "print", "done"} => timeline_count = Len(addLog)
    /\ pc \in {"print", "done"} => result = Len(addLog)

\* Two paths have reached the bottom boundary through the same cell, and
\* 2 was returned.
C17_Witness ==
    /\ pc = "done"
    /\ printed = 2
    /\ Len(addLog) = 2
    /\ \E j, k \in 1..Len(addLog) :
         /\ j < k
         /\ PositionOf(addLog[j].sig).col = PositionOf(addLog[k].sig).col

(***************************************************************************)
(* C18: all paths of the current frontier are in the row given by the      *)
(* number of generation steps completed, those of the next frontier one    *)
(* row below.  With height >= 1 the set is therefore written only in the   *)
(* generation whose frontier is in row height - 1, every signature passed  *)
(* to hash_set_add or stored has length height - 1, and a comparison of    *)
(* the path being handled with any node of the set reads no byte beyond    *)
(* the node's symbols and terminator.                                      *)
(***************************************************************************)
CompletedSteps == IF pc = "for" THEN gen - 1 ELSE gen

C18_OneRowPerFrontier ==
    /\ \A k \in 1..Size(paths) : paths.data[k].row = CompletedSteps
    /\ \A k \in 1..Size(new_paths) : new_paths.data[k].row = CompletedSteps + 1
    /\ height >= 1 =>
          /\ \A k \in 1..Len(addLog) : Len(addLog[k].sig) = height - 1
          /\ \A s \in Members(final_states) : Len(s) = height - 1
          /\ final_states.size > 0 => gen = height
          /\ (pc = "for" /\ i < Size(paths) /\ paths.data[i + 1].row + 1 >= height) =>
                \A n \in Nodes(final_states) :
                    paths.data[i + 1].sig_len + 1
                        <= Len(final_states.buckets[n[1]][n[2]])

\* In the generation of the last row of a grid of height 3 or more, a path
\* is about to be added while the set already holds a signature.
C18_Witness ==
    /\ pc = "for"
    /\ height >= 3
    /\ gen = height
    /\ i < Size(paths)
    /\ final_states.size >= 1
    /\ paths.data[i + 1].sig_len = height - 1

(***************************************************************************)
(* C19: when main has loaded no row (height = 0, width = 0) the program    *)
(* enters no error state: start_col is 0, the initial path (0, 0) is at    *)
(* the boundary in the first generation, so that no grid cell is read and  *)
(* no successor is produced, the empty signature is inserted, and part2    *)
(* returns 1.                                                              *)
(***************************************************************************)
C19_EmptyGrid ==
    (height = 0 /\ pc \notin {"main", "error"}) =>
        /\ width = 0
        /\ exit_status # 1
        /\ pc # "find_start" => start_col = 0
        /\ \A k \in 1..Size(paths) :
             /\ paths.data[k].row = 0
             /\ paths.data[k].col = 0
             /\ AtBoundary(paths.data[k])
        /\ Size(new_paths) = 0
        /\ gen <= 1
        /\ Exited \subseteq {<<>>}
        /\ pc \in {"return", "print", "done"} =>
              (Members(final_states) = {<<>>} /\ timeline_count = 1)
        /\ pc \in {"print", "done"} => result = 1
        /\ pc = "done" => (printed = 1 /\ exit_status = 0)

\* The run on the empty grid has printed 1.
C19_Witness ==
    /\ pc = "done"
    /\ height = 0
    /\ grid = <<>>
    /\ gen = 1
    /\ printed = 1

(***************************************************************************)
(* C20: with 1 <= height <= MAX_GRID_SIZE no signature is longer than      *)
(* height - 1, so the highest index written in a signature buffer, that of *)
(* the terminator, is at most height - 1 and lies inside the               *)
(* MAX_SIGNATURE_LEN bytes of Path.signature and of new_sig; a path that   *)
(* is about to be extended has room for the symbol and the terminator.     *)
(***************************************************************************)
FitsBuffer(p) ==
    /\ p.sig_len <= height - 1
    /\ Len(p.signature) <= height
    /\ Len(p.signature) <= MAX_SIGNATURE_LEN

C20_NoSignatureOverflow ==
    (1 <= height /\ height <= MAX_GRID_SIZE) =>
        /\ MAX_GRID_SIZE <= MAX_SIGNATURE_LEN
        /\ \A k \in 1..Size(paths) : FitsBuffer(paths.data[k])
        /\ \A k \in 1..Size(new_paths) : FitsBuffer(new_paths.data[k])
        /\ (pc = "for" /\ i < Size(paths) /\ ~AtBoundary(paths.data[i + 1])) =>
              paths.data[i + 1].sig_len + 1 <= height - 1

\* A path of the last row of a grid of height 4 carries height - 1 symbols.
C20_Witness ==
    /\ pc = "for"
    /\ height >= 4
    /\ \E k \in 1..Size(paths) :
         /\ paths.data[k].sig_len = height - 1
         /\ Len(paths.data[k].signature) = height

====
